---- MODULE Spec2Model ----
(***************************************************************************)
(* A model of git-backup: the provider enumeration loop (services/*.rs),   *)
(* the mirror synchroniser (git.rs) and the backup orchestrator with its   *)
(* prune pass (main.rs), from the source string to the exit status.        *)
(*                                                                         *)
(* Strings are sequences of one-character strings, so that format!(),      *)
(* ends_with() and into_string() are computed and not assumed.  The        *)
(* character "xFF" stands for a byte that is not valid UTF-8.              *)
(***************************************************************************)
EXTENDS Integers, Sequences, FiniteSets, TLC

VARIABLES
    url,          \* opts.url: the source the user names
    git_version,  \* what git::version() parsed: << >> or <<major, minor, patch>>
    stderrs,      \* what the git of this machine may write to its standard
                  \* error when it fails
    token,        \* --token or GIT_TOKEN; None when neither is given
    service,      \* which provider client list_repositories belongs to
    owner,        \* the client's owner field
    repository,   \* the client's repository field; None for a whole account
    exit_status,  \* << >> until main returns, then << the exit status >>
    procs,        \* history: the git::Opts and the command of each process
                  \* that sync_repository started in this run
    outputs,      \* history: the folder and the captured standard error of
                  \* each git process of this run that exited with a failure
    server,       \* the provider: request cursor -> response
    dry_run,      \* opts.dry_run
    prune,        \* opts.prune
    destState,    \* the destination directory: "missing", "ok", "unreadable"
                  \* (it cannot be listed) or "unsearchable" (it can be
                  \* listed, but its children cannot be looked up)
    fs,           \* the paths under the destination: path -> entry
    unreadable,   \* children whose directory entry cannot be read
    pc,           \* position of run()
    result,       \* what run() returned: "running", "Ok", "Err"
    cursor,       \* list_repositories: the cursor variable
    repos,        \* list_repositories: the repos vector, then run()'s repos
    requests,     \* history: the cursors of the requests issued so far
    task,         \* one sync task per element of repos
    todo,         \* prune pass: children read_dir has not yielded yet
    syncing,      \* log: names of "Syncing '..'" lines
    pruning,      \* log: names of "Pruning .." lines
    errors,       \* log: error lines
    removed,      \* history: paths under the destination removed in this run
    created,      \* history: directories created in this run
    gitStarted,   \* history: number of git processes started in this run
    pruneSeen,    \* history: task states when read_dir(dest) was called
    fsAtPrune,    \* history: the children when read_dir(dest) was called
    syncLog,      \* history: per folder, the successful syncs (op, refs)
    runNo,        \* number of the current invocation of the tool
    prevRun       \* report of the previous invocation

\* what the client is made of, and the git of this machine
source == << url, git_version, stderrs, token, owner, repository >>

vars == << url, git_version, stderrs, token, service, owner, repository,
           exit_status, procs, outputs, server, dry_run, prune, destState, fs,
           unreadable, pc,
           result, cursor, repos, requests, task, todo, syncing, pruning,
           errors, removed, created, gitStarted, pruneSeen, fsAtPrune,
           syncLog, runNo, prevRun >>

----------------------------------------------------------------------------
(* Bounds *)

MaxPages == 2        \* pages a provider serves
MaxNodes == 3        \* nodes in one page
MaxRepos == 3        \* repositories the owner has
MaxRequests == 4     \* requests followed in one enumeration
MaxEntries == 2      \* children of the destination at the start
MaxRuns == 2         \* consecutive invocations of the tool

----------------------------------------------------------------------------
(* Strings *)

None == <<"None">>

DotGit == << ".", "g", "i", "t" >>

Digits == << "0", "1", "2", "3", "4", "5", "6", "7", "8", "9" >>

RECURSIVE usize_to_string(_)
usize_to_string(n) ==
    IF n < 10 THEN << Digits[n + 1] >>
    ELSE usize_to_string(n \div 10) \o << Digits[(n % 10) + 1] >>

\* faulty variant: the first character of the suffix is not compared
ends_with_tail(s, suffix) ==
    /\ Len(s) >= Len(suffix) - 1
    /\ SubSeq(s, Len(s) - Len(suffix) + 2, Len(s)) = Tail(suffix)

ends_with(s, suffix) ==
    /\ Len(s) >= Len(suffix)
    /\ SubSeq(s, Len(s) - Len(suffix) + 1, Len(s)) = suffix

into_string_ok(s) == \A i \in 1..Len(s) : s[i] # "xFF"

repo_name_to_folder(repo_name) == repo_name \o DotGit

----------------------------------------------------------------------------
(* Regular expressions, as the regex crate matches them: the alternatives    *)
(* of a pattern are tried in order and the first way to match the whole of  *)
(* the pattern wins.  A match state is the next position and the captures.  *)

Lit(s) == [t |-> "lit", s |-> s]
Opt(r) == [t |-> "opt", r |-> r]                 \* (?:r)?
Cat(rs) == [t |-> "cat", rs |-> rs]              \* r1 r2 ...
Alt(rs) == [t |-> "alt", rs |-> rs]              \* r1|r2|...
Plus(excl) == [t |-> "plus", excl |-> excl]      \* [^excl]+
PlusLazy(excl) == [t |-> "lazy", excl |-> excl]  \* [^excl]+?
Cap(i, r) == [t |-> "cap", i |-> i, r |-> r]     \* the i-th capture group
End == [t |-> "end"]                             \* $

AnyChar == {"\n"}                                \* . matches all but a newline

\* the length of the longest run of characters outside excl from position pos
RECURSIVE RunLength(_, _, _)
RunLength(excl, s, pos) ==
    IF pos > Len(s) \/ s[pos] \in excl THEN 0
    ELSE 1 + RunLength(excl, s, pos + 1)

RECURSIVE Match(_, _, _), MatchCat(_, _, _, _), MatchEach(_, _, _, _, _),
          MatchAlt(_, _, _, _)
\* the match states after r matched s from the state st, in order of preference
Match(r, s, st) ==
    CASE r.t = "lit" ->
            IF /\ st.pos + Len(r.s) - 1 <= Len(s)
               /\ SubSeq(s, st.pos, st.pos + Len(r.s) - 1) = r.s
            THEN << [st EXCEPT !.pos = @ + Len(r.s)] >>
            ELSE << >>
      [] r.t = "opt" -> Match(r.r, s, st) \o << st >>
      [] r.t = "cat" -> MatchCat(r.rs, 1, s, st)
      [] r.t = "alt" -> MatchAlt(r.rs, 1, s, st)
      [] r.t = "plus" ->
            LET n == RunLength(r.excl, s, st.pos)
            IN  [k \in 1..n |-> [st EXCEPT !.pos = @ + (n - k + 1)]]
      [] r.t = "lazy" ->
            LET n == RunLength(r.excl, s, st.pos)
            IN  [k \in 1..n |-> [st EXCEPT !.pos = @ + k]]
      [] r.t = "cap" ->
            LET ms == Match(r.r, s, st)
            IN  [k \in DOMAIN ms |->
                    [ms[k] EXCEPT !.caps[r.i] = SubSeq(s, st.pos, ms[k].pos - 1)]]
      [] r.t = "end" -> IF st.pos = Len(s) + 1 THEN << st >> ELSE << >>

MatchCat(rs, k, s, st) ==
    IF k > Len(rs) THEN << st >>
    ELSE MatchEach(Match(rs[k], s, st), 1, rs, k + 1, s)

MatchEach(sts, j, rs, k, s) ==
    IF j > Len(sts) THEN << >>
    ELSE MatchCat(rs, k, s, sts[j]) \o MatchEach(sts, j + 1, rs, k, s)

MatchAlt(rs, k, s, st) ==
    IF k > Len(rs) THEN << >>
    ELSE Match(rs[k], s, st) \o MatchAlt(rs, k + 1, s, st)

\* Regex::captures for a pattern that starts with ^: None, or the two groups
captures(re, s) ==
    LET ms == Match(re, s, [pos |-> 1, caps |-> << None, None >>])
    IN  IF ms = << >> THEN None ELSE ms[1].caps

----------------------------------------------------------------------------
(* The sources: <Client>::new and pick_service *)

Http == << "h", "t", "t", "p" >>
Https_s == << "s" >>
SchemeSep == << ":", "/", "/" >>
Www == << "w", "w", "w", "." >>
GitAt == << "g", "i", "t", "@" >>
Slash == << "/" >>
Colon == << ":" >>
At == << "@" >>

HostOf(svc) ==
    CASE svc = "github" -> << "g", "i", "t", "h", "u", "b" >>
      [] svc = "gitlab" -> << "g", "i", "t", "l", "a", "b" >>
      [] svc = "bitbucket" -> << "b", "i", "t", "b", "u", "c", "k", "e", "t" >>

TldOf(svc) == IF svc = "github" THEN << ".", "c", "o", "m" >> ELSE << ".", "o", "r", "g" >>

\* faulty variant: the repository group takes the longest name, .git included
HTTP_URL_RE_greedyRepo(svc) ==
    Cat(<< Opt(Cat(<< Lit(Http), Opt(Lit(Https_s)), Lit(SchemeSep) >>)),
           Opt(Lit(Www)), Lit(HostOf(svc)), Opt(Lit(TldOf(svc))), Lit(Slash),
           Cap(1, Plus({"/"})),
           Opt(Cat(<< Lit(Slash), Cap(2, Plus({"/"})) >>)),
           Opt(Alt(<< Lit(Slash), Lit(DotGit) >>)), End >>)

\* ^(?:http(?:s)?://)?(?:www\.)?HOST(?:\.TLD)?/([^/]+)(?:/([^/]+?))?(?:/|\.git)?$
HTTP_URL_RE(svc) ==
    Cat(<< Opt(Cat(<< Lit(Http), Opt(Lit(Https_s)), Lit(SchemeSep) >>)),
           Opt(Lit(Www)), Lit(HostOf(svc)), Opt(Lit(TldOf(svc))), Lit(Slash),
           Cap(1, Plus({"/"})),
           Opt(Cat(<< Lit(Slash), Cap(2, PlusLazy({"/"})) >>)),
           Opt(Alt(<< Lit(Slash), Lit(DotGit) >>)), End >>)

\* ^(?:git@)?HOST(?:\.TLD)?:([^/.]+)(?:/(.+?)(?:\.git)?)?$
SSH_URL_RE(svc) ==
    Cat(<< Opt(Lit(GitAt)), Lit(HostOf(svc)), Opt(Lit(TldOf(svc))), Lit(Colon),
           Cap(1, Plus({"/", "."})),
           Opt(Cat(<< Lit(Slash), Cap(2, PlusLazy(AnyChar)), Opt(Lit(DotGit)) >>)),
           End >>)

\* ^([^@]+)@HOST(?:\.TLD)?(?:(?:/|:)(.+?)(?:\.git)?)?$
BASIC_SSH_RE(svc) ==
    Cat(<< Cap(1, Plus({"@"})), Lit(At), Lit(HostOf(svc)), Opt(Lit(TldOf(svc))),
           Opt(Cat(<< Alt(<< Lit(Slash), Lit(Colon) >>),
                      Cap(2, PlusLazy(AnyChar)), Opt(Lit(DotGit)) >>)),
           End >>)

\* None of Option<Github>, Option<GitLab>, Option<Bitbucket>
NoService == [service |-> "none", owner |-> None, repository |-> None]

\* Github::new, GitLab::new, Bitbucket::new: the client, or NoService
new(svc, u) ==
    LET http == captures(HTTP_URL_RE(svc), u)
        ssh == captures(SSH_URL_RE(svc), u)
        basic == captures(BASIC_SSH_RE(svc), u)
        caps == IF http # None THEN http ELSE IF ssh # None THEN ssh ELSE basic
    IN  IF caps = None THEN NoService
        ELSE [service |-> svc, owner |-> caps[1], repository |-> caps[2]]

\* the order in which pick_service tries the clients
Registered == << "github", "bitbucket", "gitlab" >>

RECURSIVE pick_service_lastMatch(_, _), pick_service(_, _)
\* faulty variant: the last registered client that matches wins
pick_service_lastMatch(u, k) ==
    IF k > Len(Registered) THEN NoService
    ELSE LET later == pick_service_lastMatch(u, k + 1)
         IN  IF later # NoService THEN later ELSE new(Registered[k], u)

\* pick_service, from the k-th registered client on
pick_service(u, k) ==
    IF k > Len(Registered) THEN NoService
    ELSE LET client == new(Registered[k], u)
         IN  IF client # NoService THEN client ELSE pick_service(u, k + 1)

----------------------------------------------------------------------------
(* The provider *)

Letters == << "a", "b", "c", "d", "e" >>

a == << Letters[1] >>
b == << Letters[2] >>
a2 == << "a", " ", "2" >>

\* the names of the owner's repositories, and the first-file names of gists
RepoNames == {<< Letters[i] >> : i \in 1..MaxRepos}
GistNames == {a, a2}

CursorAt(k) == IF k = 0 THEN None ELSE << "c", Digits[k + 1] >>

UrlOf(name) == << "u", "/" >> \o name

\* a node of a response: a name and a clone URL
GoodNodes(names) == {[name |-> n, url |-> UrlOf(n)] : n \in names}

SeqsUpTo(S, n) == UNION {[1..k -> S] : k \in 0..n}

ErrorResponses ==
    {[kind |-> k, hasNodes |-> FALSE, nodes |-> <<>>, endCursor |-> None] :
        k \in {"transport", "status401", "status500", "badjson"}}

\* the pages a provider serves one after the other, each naming the next
Chain(pages) ==
    [c \in {CursorAt(k) : k \in 0..(Len(pages) - 1)} |->
        LET k == CHOOSE j \in 0..(Len(pages) - 1) : CursorAt(j) = c IN
        [kind |-> "json", hasNodes |-> TRUE, nodes |-> pages[k + 1],
         endCursor |-> IF k + 1 < Len(pages) THEN CursorAt(k + 1) ELSE None]]

\* the fields of pageInfo the GraphQL query of the client asks for
QueryPageInfoGists == FALSE

QueryPageInfo(svc) == IF svc = "gists" THEN QueryPageInfoGists ELSE TRUE

\* the response the client reads for a request with cursor c
Response(svc, srv, c) ==
    IF QueryPageInfo(svc) THEN srv[c] ELSE [srv[c] EXCEPT !.endCursor = None]

----------------------------------------------------------------------------
(* list_repositories *)

Repository(node) == [name |-> node.name, git_url |-> node.url]

\* the for loop over the nodes of one response; "Err" at the first bad node
RECURSIVE push_nodes(_, _, _)
push_nodes(acc, nodes, i) ==
    IF i > Len(nodes) THEN [ok |-> TRUE, repos |-> acc]
    ELSE IF nodes[i].name = None \/ nodes[i].url = None
         THEN [ok |-> FALSE, repos |-> acc]
         ELSE push_nodes(Append(acc, Repository(nodes[i])), nodes, i + 1)

RECURSIVE dedupe_loop_countsFromZero(_, _, _), dedupe_loop(_, _, _)
\* faulty variant: the number appended is one less than the occurrence
dedupe_loop_countsFromZero(rs, i, seen_name_counts) ==
    IF i > Len(rs) THEN rs
    ELSE LET nm == rs[i].name
             n == (IF nm \in DOMAIN seen_name_counts
                   THEN seen_name_counts[nm] ELSE 0) + 1
             seen == [x \in DOMAIN seen_name_counts \cup {nm} |->
                         IF x = nm THEN n ELSE seen_name_counts[x]]
         IN dedupe_loop_countsFromZero(
                IF n # 1
                THEN [rs EXCEPT ![i].name = nm \o << " " >> \o usize_to_string(n - 1)]
                ELSE rs,
                i + 1, seen)

\* the loop over repos that numbers the names seen before
dedupe_loop(rs, i, seen_name_counts) ==
    IF i > Len(rs) THEN rs
    ELSE LET nm == rs[i].name
             n == (IF nm \in DOMAIN seen_name_counts
                   THEN seen_name_counts[nm] ELSE 0) + 1
             seen == [x \in DOMAIN seen_name_counts \cup {nm} |->
                         IF x = nm THEN n ELSE seen_name_counts[x]]
         IN dedupe_loop(
                IF n # 1
                THEN [rs EXCEPT ![i].name = nm \o << " " >> \o usize_to_string(n)]
                ELSE rs,
                i + 1, seen)

dedupe(rs) == dedupe_loop(rs, 1, << >>)

\* what list_repositories returns once its loop has ended
Listed(svc, rs) == IF svc = "gists" THEN dedupe(rs) ELSE rs

\* the clients whose match on the status code has an arm for 401
Matches401 == {"gists", "gitlab", "bitbucket"}

StatusError(svc, kind) ==
    IF svc \in Matches401 /\ kind = "status401" THEN "not authorized"
    ELSE "non-success response"

\* the clone URL the client makes for the one repository the source names
single_git_url(svc, user, repo) ==
    CASE svc = "github" ->
            << "h", "t", "t", "p", "s", ":", "/", "/", "g", "i", "t", "h", "u", "b", ".", "c", "o", "m", "/" >>
                \o user \o Slash \o repo
      [] svc = "gitlab" ->
            << "h", "t", "t", "p", "s", ":", "/", "/", "g", "i", "t", "l", "a", "b", ".", "c", "o", "m", "/" >>
                \o user \o Slash \o repo \o DotGit
      [] svc = "bitbucket" ->
            << "h", "t", "t", "p", "s", ":", "/", "/", "b", "i", "t", "b", "u", "c", "k", "e", "t", ".", "o", "r", "g", "/" >>
                \o user \o Slash \o repo

\* faulty variant: the token is asked for before the repository is looked at
list_begin_tokenFirst(svc, user, repo, tok) ==
    IF svc # "gists" /\ tok = None
    THEN [st |-> "err", msg |-> "token required", repos |-> << >>, cursor |-> None]
    ELSE IF svc # "gists" /\ repo # None
    THEN [st |-> "ok", msg |-> "", cursor |-> None,
          repos |-> << [name |-> repo, git_url |-> single_git_url(svc, user, repo)] >>]
    ELSE [st |-> "more", msg |-> "", repos |-> << >>, cursor |-> None]

\* list_repositories up to its first request: "ok" returns the one repository
\* of the source, "err" returns an error, "more" goes on to the requests
list_begin(svc, user, repo, tok) ==
    IF svc # "gists" /\ repo # None
    THEN [st |-> "ok", msg |-> "", cursor |-> None,
          repos |-> << [name |-> repo, git_url |-> single_git_url(svc, user, repo)] >>]
    ELSE IF svc # "gists" /\ tok = None
    THEN [st |-> "err", msg |-> "token required", repos |-> << >>, cursor |-> None]
    ELSE [st |-> "more", msg |-> "", repos |-> << >>, cursor |-> None]

----------------------------------------------------------------------------
(* The destination directory and git *)

\* the owner, the repository and the token of the sources
Jsdw == << "j", "s", "d", "w" >>
GitBackup == << "g", "i", "t", ".", "b", "a", "c", "k", "u", "p" >>
Tok == << "T", "0", "K" >>

Fa == repo_name_to_folder(a)                    \* "a.git"
Fb == repo_name_to_folder(b)                    \* "b.git"
Fz == << "z", ".", "g", "i", "t" >>             \* "z.git"
Fx == << "xFF", ".", "g", "i", "t" >>           \* "\xFF.git"
Fg == << "z", "g", "i", "t" >>                  \* "zgit"

\* a repository name with a path separator in it, and what Path::push makes
\* of its folder name: a folder "y.git" in the child "x.git"
NestedName == << "x", ".", "g", "i", "t", "/", "y" >>
Fxy == repo_name_to_folder(NestedName)          \* "x.git/y.git"
Fxg == << "x", ".", "g", "i", "t" >>            \* "x.git"

DirNames == {Fa, Fb, Fz, Fx, Fg}

\* every path under the destination that a run can create or find there
AllNames ==
    DirNames \cup {Fxg, Fxy}
    \cup {repo_name_to_folder(n) : n \in RepoNames \cup GistNames \cup {GitBackup}}
    \cup {repo_name_to_folder(n \o << " " >> \o usize_to_string(k)) :
            n \in {a, a2}, k \in 2..4}

\* the path has one component: it is a direct child of the destination
direct_child(n) == \A k \in DOMAIN n : n[k] # "/"

\* the path n lies in the directory e
inside(n, e) ==
    /\ Len(n) > Len(e) + 1
    /\ SubSeq(n, 1, Len(e)) = e
    /\ n[Len(e) + 1] = "/"

\* the directories between the destination and the path
parents(n) == {e \in AllNames : inside(n, e)}

\* the repository an earlier run has mirrored; no provider lists it now
UrlOld == UrlOf(<< "o", "l", "d" >>)

\* a path under the destination: its kind ("none", "file", "dir", or "link"
\* for a symbolic link to a directory) and, of the directory, whether it holds
\* a file HEAD, the refs in it, and the URL of remote "origin" in its config
Absent == [kind |-> "none", head |-> FALSE, refs |-> {}, origin |-> None]
EmptyDir == [kind |-> "dir", head |-> FALSE, refs |-> {}, origin |-> None]
File == [kind |-> "file", head |-> FALSE, refs |-> {}, origin |-> None]
Link == [kind |-> "link", head |-> FALSE, refs |-> {}, origin |-> None]
OldMirror ==
    [kind |-> "dir", head |-> TRUE, refs |-> {<< "refs", "heads", "old" >>},
     origin |-> UrlOld]

\* the children of the destination can be looked up (stat, mkdir, unlink): the
\* destination has the search permission
searchable(dest) == dest \in {"ok", "unreadable"}

\* Path::is_dir: follows a symbolic link, and is false when the path cannot
\* be looked up
is_dir(dest, entry) == searchable(dest) /\ entry.kind \in {"dir", "link"}

\* the refs of the remote repository behind a URL; it never changes
RemoteRefs(git_url) ==
    IF git_url = UrlOld
    THEN {<< "refs", "heads", "old" >>}
    ELSE IF git_url = UrlOf(a)
    THEN {<< "refs", "heads", "master" >>, << "refs", "tags", "v1" >>}
    ELSE {<< "refs", "heads", "master" >>, << "refs", "pull", "1" >>}

\* git clone --bare: the branches and tags of the remote
git_clone_refs(git_url) ==
    {r \in RemoteRefs(git_url) : r[2] \in {"heads", "tags"}}

\* git fetch origin '+*:*' --prune: every ref of the remote that the
\* configuration of the mirror names origin, and no other
git_fetch_refs(origin) == RemoteRefs(origin)

\* git clone refuses a directory that is not empty; git fetch origin needs
\* the remote in the configuration of the mirror
git_may_succeed(command, entry, empty) ==
    IF command = "fetch"
    THEN entry.head /\ entry.origin # None
    ELSE ~entry.head /\ entry.refs = {} /\ entry.origin = None /\ empty

\* what remove_dir_all can leave of a path when it fails: of a directory it
\* removes the contents one by one and stops at the first error; a symbolic
\* link it unlinks, and a failure leaves the link
remove_dir_all_leaves(entry) ==
    IF entry.kind # "dir" THEN {entry}
    ELSE {[kind |-> "dir", head |-> h, refs |-> r, origin |-> o] :
            h \in {entry.head, FALSE}, r \in SUBSET entry.refs,
            o \in {entry.origin, None}}

\* is_repo: the folder contains a file called HEAD
is_repo(entry) == entry.kind \in {"dir", "link"} /\ entry.head

\* faulty variant: the folders of every repository of the account are kept
keep_these_folders_wholeAccount(rs) ==
    {repo_name_to_folder(rs[i].name) : i \in DOMAIN rs}
        \cup {repo_name_to_folder(n) : n \in RepoNames}

\* the folder names of the listed repositories
keep_these_folders(rs) == {repo_name_to_folder(rs[i].name) : i \in DOMAIN rs}

\* faulty variant: the names of the current repositories are not skipped
prune_candidate_ignoresKeep(name, entry, unread, keep, dest) ==
    /\ name \notin unread
    /\ is_dir(dest, entry)
    /\ into_string_ok(name)
    /\ ends_with(name, DotGit)

\* the checks of the prune loop that an entry passes before it is pruned
prune_candidate(name, entry, unread, keep, dest) ==
    /\ name \notin unread
    /\ is_dir(dest, entry)
    /\ into_string_ok(name)
    /\ ends_with(name, DotGit)
    /\ name \notin keep

NoRun ==
    [dry |-> FALSE, prune |-> FALSE, syncing |-> {}, pruning |-> {},
     result |-> "none"]

----------------------------------------------------------------------------
(* Initial states *)

RECURSIVE Flatten(_)
Flatten(pages) ==
    IF pages = << >> THEN << >> ELSE Head(pages) \o Flatten(Tail(pages))

Distinct(seq) == \A i, j \in DOMAIN seq : seq[i] = seq[j] => i = j

\* pages of well-formed nodes
Pages(names) ==
    UNION {[1..n -> SeqsUpTo(GoodNodes(names), MaxNodes)] : n \in 1..MaxPages}

\* pages of well-formed nodes, no node twice in a page
DistinctPages(names) ==
    UNION {[1..n -> {q \in SeqsUpTo(GoodNodes(names), MaxNodes) : Distinct(q)}] :
            n \in 1..MaxPages}

\* one response of a provider gone wrong
Defects(resp, cs) ==
    ErrorResponses
    \cup {[resp EXCEPT !.hasNodes = FALSE, !.nodes = << >>]}
    \cup {[resp EXCEPT !.endCursor = c] : c \in cs \cup {None}}
    \cup {[resp EXCEPT !.nodes[i].name = None] : i \in DOMAIN resp.nodes}
    \cup {[resp EXCEPT !.nodes[i].url = None] : i \in DOMAIN resp.nodes}

OneDefect(srv) ==
    UNION {{[srv EXCEPT ![c] = r] : r \in Defects(srv[c], DOMAIN srv)} :
            c \in DOMAIN srv}

\* a provider lists each repository of the owner once
GithubChains ==
    {Chain(p) : p \in {q \in DistinctPages(RepoNames) : Distinct(Flatten(q))}}

GithubServers == GithubChains \cup UNION {OneDefect(srv) : srv \in GithubChains}

\* gists are listed once each, but several can have the same first file
GistServers == {Chain(p) : p \in Pages(GistNames)}

na == [name |-> a, url |-> UrlOf(a)]
nb == [name |-> b, url |-> UrlOf(b)]

OrchServers ==
    { Chain(<< << >> >>), Chain(<< << na >> >>), Chain(<< << na >>, << nb >> >>),
      [Chain(<< << na >> >>) EXCEPT ![None].kind = "transport"],
      [Chain(<< << na >>, << nb >> >>) EXCEPT ![CursorAt(1)].kind = "status500"] }

EntryKinds(name) ==
    IF name = Fa THEN {File, EmptyDir, Link, OldMirror}
    ELSE IF name = Fb THEN {OldMirror}
    ELSE IF name = Fz THEN {File, EmptyDir, Link}
    ELSE {EmptyDir}

FsConfigs ==
    UNION {
        {[n \in AllNames |-> IF n \in S THEN k[n] ELSE Absent] :
            k \in [S -> {File, EmptyDir, Link, OldMirror}]}
        : S \in {T \in SUBSET DirNames : Cardinality(T) <= MaxEntries}}

MinVersion == << 2, 0, 0 >>

\* git::version() returned an error: no version in the output of git version
NoGit == << >>

\* the sources
Providers == {"github", "bitbucket", "gitlab"}

\* a location: an account of a provider, or one repository of it
Locations ==
    {[service |-> p, owner |-> Jsdw, repository |-> r] :
        p \in Providers, r \in {None, GitBackup}}

RepoPart(loc, seps) ==
    IF loc.repository = None THEN {<< >>}
    ELSE {sep \o loc.repository \o suffix : sep \in seps, suffix \in {<< >>, DotGit}}

HostForms(loc) == {HostOf(loc.service) \o tld : tld \in {<< >>, TldOf(loc.service)}}

HttpForms(loc) ==
    {scheme \o www \o host \o Slash \o loc.owner \o rest :
        scheme \in {<< >>, Http \o SchemeSep, Http \o Https_s \o SchemeSep},
        www \in {<< >>, Www}, host \in HostForms(loc),
        rest \in RepoPart(loc, {Slash})}

SshForms(loc) ==
    {user \o host \o Colon \o loc.owner \o rest :
        user \in {<< >>, GitAt}, host \in HostForms(loc),
        rest \in RepoPart(loc, {Slash})}

BasicForms(loc) ==
    {loc.owner \o At \o host \o rest :
        host \in HostForms(loc), rest \in RepoPart(loc, {Slash, Colon})}

\* the ways to write a location
Variants(loc) == HttpForms(loc) \cup SshForms(loc) \cup BasicForms(loc)

\* sources that both the first and a later client take for theirs
Ambiguous ==
    { << "g", "i", "t", "h", "u", "b", "/", "j", "s", "d", "w", "@", "b", "i", "t", "b", "u", "c", "k", "e", "t" >>,
      << "b", "i", "t", "b", "u", "c", "k", "e", "t", "/", "j", "s", "d", "w", "@", "g", "i", "t", "l", "a", "b" >> }

\* sources of no client
Unrecognised ==
    { << >>,
      << "j", "s", "d", "w" >>,
      << "g", "i", "t", "h", "u", "b", ".", "c", "o", "m" >>,
      << "g", "i", "s", "t", ".", "g", "i", "t", "h", "u", "b", ".", "c", "o", "m", "/", "j", "s", "d", "w" >>,
      << "e", "x", "a", "m", "p", "l", "e", ".", "o", "r", "g", "/", "j", "s", "d", "w" >>,
      << "G", "i", "t", "H", "u", "b", ".", "c", "o", "m", "/", "j", "s", "d", "w" >>,
      << "g", "i", "t", "l", "a", "b", ".", "c", "o", "m", "/", "j", "s", "d", "w" >>,
      << "g", "i", "t", "h", "u", "b", ".", "c", "o", "m", ":", "j", "s", "d", "w", "/" >> }

AllUrls == UNION {Variants(loc) : loc \in Locations} \cup Ambiguous \cup Unrecognised

UrlAccount == << "g", "i", "t", "h", "u", "b", ".", "c", "o", "m", "/", "j", "s", "d", "w" >>
UrlSingle == << "g", "i", "t", "h", "u", "b", ".", "c", "o", "m", "/", "j", "s", "d", "w", "/", "a" >>
UrlNested == GitAt \o << "g", "i", "t", "h", "u", "b", ".", "c", "o", "m", ":", "j", "s", "d", "w", "/" >> \o NestedName
UrlBitbucket == << "b", "i", "t", "b", "u", "c", "k", "e", "t", ".", "o", "r", "g", "/", "j", "s", "d", "w" >>
UrlGitlab == << "g", "i", "t", "l", "a", "b", ".", "o", "r", "g", "/", "j", "s", "d", "w" >>
UrlUnknown == << "e", "x", "a", "m", "p", "l", "e", ".", "o", "r", "g", "/", "j", "s", "d", "w" >>

\* what a git process may write to its standard error before it fails:
\* a message, and a message with a byte that is not valid UTF-8
Fatal ==
    << "f", "a", "t", "a", "l" >>

GitStderr == {Fatal, << "f", "xFF" >>}

GitVersions == {NoGit, << 1, 9, 5 >>, << 2, 0, 0 >>, << 2, 39, 2 >>}
GoodGit == << 2, 39, 2 >>

TypeOK ==
    /\ service \in {"none", "github", "gists", "gitlab", "bitbucket"}
    /\ dry_run \in BOOLEAN /\ prune \in BOOLEAN
    /\ destState \in {"missing", "ok", "unreadable", "unsearchable"}
    /\ pc \in {"start", "list", "sync", "prune", "done", "exited"}
    /\ result \in {"running", "Ok", "Err"}
    /\ runNo \in 1..MaxRuns

InitRun ==
    /\ result = "running"
    /\ cursor = None /\ repos = << >> /\ requests = << >>
    /\ task = << >> /\ todo = {}
    /\ syncing = {} /\ pruning = {} /\ errors = {}
    /\ removed = {} /\ created = {} /\ gitStarted = 0
    /\ pruneSeen = << >> /\ fsAtPrune = fs
    /\ syncLog = [n \in AllNames |-> << >>]
    /\ runNo = 1 /\ prevRun = NoRun
    /\ exit_status = << >> /\ procs = {} /\ outputs = {}

\* the process has started: no client yet
InitMain ==
    /\ pc = "start"
    /\ service = "none" /\ owner = None /\ repository = None
    /\ InitRun

\* any destination of the bounds
InitDest ==
    \/ /\ destState = "ok"
       /\ fs \in {f \in FsConfigs : \A n \in DirNames :
                     f[n] = Absent \/ f[n] \in EntryKinds(n)}
       /\ unreadable \in {u \in SUBSET {Fz} : \A n \in u : fs[n].kind = "dir"}
    \/ /\ destState = "unsearchable"
       /\ fs \in {f \in FsConfigs : \A n \in DirNames :
                     f[n] = Absent \/ (n \in {Fa, Fz} /\ f[n] = OldMirror)}
       /\ unreadable = {}
    \/ /\ destState \in {"missing", "unreadable"}
       /\ fs = [n \in AllNames |-> Absent]
       /\ unreadable = {}

\* a destination for the repository whose name has a path separator
InitNestedDest ==
    /\ destState \in {"missing", "ok"}
    /\ fs \in {[n \in AllNames |-> IF n = Fxg THEN k ELSE Absent] :
                 k \in IF destState = "ok" THEN {Absent, EmptyDir, File}
                        ELSE {Absent}}
    /\ unreadable = {}

\* a destination with no children
InitEmptyDest ==
    /\ destState = "ok"
    /\ fs = [n \in AllNames |-> Absent]
    /\ unreadable = {}

Init ==
    /\ dry_run \in BOOLEAN /\ prune \in BOOLEAN
    /\ \/ /\ url = UrlAccount /\ git_version = GoodGit /\ token = Tok
          /\ server \in OrchServers
          /\ InitDest
       \/ /\ url = UrlSingle /\ git_version = GoodGit /\ token = Tok
          /\ server = Chain(<< << na >> >>)
          /\ InitDest
       \/ /\ url = UrlNested /\ git_version = GoodGit /\ token = Tok
          /\ server = Chain(<< << na >> >>)
          /\ InitNestedDest
       \/ /\ url \in {UrlBitbucket, UrlGitlab}
          /\ git_version = GoodGit /\ token = Tok
          /\ server \in {Chain(<< << na >> >>),
                          [Chain(<< << na >> >>) EXCEPT ![None].kind = "status401"]}
          /\ InitEmptyDest
       \/ /\ \/ url = UrlUnknown /\ git_version = GoodGit /\ token = Tok
             \/ url = UrlAccount /\ git_version \in GitVersions /\ token = None
             \/ url = UrlAccount /\ git_version \in GitVersions \ {GoodGit}
                /\ token = Tok
          /\ server = Chain(<< << na >> >>)
          /\ InitEmptyDest
    /\ stderrs = IF url = UrlSingle THEN GitStderr ELSE {Fatal}
    /\ InitMain

\* the servers of one page
OnePage(servers) == {srv \in servers : DOMAIN srv = {None}}

\* list_repositories of a client that was made of any source and token
InitEnum ==
    /\ pc = "list"
    /\ url = << >> /\ git_version = GoodGit /\ stderrs = {Fatal}
    /\ owner = Jsdw
    /\ \/ /\ service = "github" /\ server \in GithubServers
          /\ repository = None /\ token = Tok
       \/ /\ service = "gists" /\ server \in GistServers
          /\ repository = None /\ token = Tok
       \/ /\ service = "gitlab" /\ server \in OnePage(GithubServers)
          /\ repository = None /\ token = Tok
       \/ /\ service = "bitbucket" /\ server \in OnePage(GithubServers)
          /\ repository = None /\ token = Tok
       \/ /\ service \in Providers
          /\ server \in {Chain(<< << na >> >>),
                          [Chain(<< << na >> >>) EXCEPT ![None].kind = "status401"]}
          /\ repository \in {None, a, GitBackup} /\ token \in {None, Tok}
    /\ dry_run = TRUE /\ prune = FALSE
    /\ InitEmptyDest
    /\ InitRun

\* the whole program, for every way to write a source
InitCli ==
    /\ url \in AllUrls /\ git_version = GoodGit /\ token = Tok
    /\ stderrs = {Fatal}
    /\ server = Chain(<< << na >> >>)
    /\ dry_run = FALSE /\ prune = TRUE
    /\ destState = "ok"
    /\ fs = [n \in AllNames |-> IF n = Fz THEN OldMirror ELSE Absent]
    /\ unreadable = {}
    /\ InitMain

----------------------------------------------------------------------------
(* main and run: from the command line to the client *)

\* the derived order of git::Version: major, then minor, then patch
version_lt(v, w) ==
    \/ v[1] < w[1]
    \/ v[1] = w[1] /\ v[2] < w[2]
    \/ v[1] = w[1] /\ v[2] = w[2] /\ v[3] < w[3]

\* run up to pick_service: the first check that fails returns its error
run_config(gv, tok, u) ==
    IF gv = NoGit
    THEN [ok |-> FALSE, msg |-> "git missing", client |-> NoService]
    ELSE IF version_lt(gv, MinVersion)
    THEN [ok |-> FALSE, msg |-> "git too old", client |-> NoService]
    ELSE IF tok = None
    THEN [ok |-> FALSE, msg |-> "token required", client |-> NoService]
    ELSE LET picked == pick_service(u, 1) IN
         IF picked = NoService
         THEN [ok |-> FALSE, msg |-> "not recognised", client |-> NoService]
         ELSE [ok |-> TRUE, msg |-> "", client |-> picked]

RunConfig ==
    /\ pc = "start"
    /\ LET c == run_config(git_version, token, url)
       IN  IF c.ok
           THEN /\ service' = c.client.service
                /\ owner' = c.client.owner
                /\ repository' = c.client.repository
                /\ pc' = "list"
                /\ UNCHANGED << result, errors >>
           ELSE /\ pc' = "done" /\ result' = "Err"
                /\ errors' = errors \cup {<< "run", c.msg >>}
                /\ UNCHANGED << service, owner, repository >>
    /\ UNCHANGED << url, git_version, stderrs, token, exit_status, procs, outputs >>
    /\ UNCHANGED << server, dry_run, prune, destState, fs, unreadable,
                    cursor, repos, requests, task, todo, syncing, pruning,
                    removed, created, gitStarted, pruneSeen, fsAtPrune,
                    syncLog, runNo, prevRun >>

\* the status the process exits with when main returns after run returned res
main_status(res) == 0

\* main: the error of run is logged, and main returns
MainExit ==
    /\ pc = "done"
    /\ pc' = "exited"
    /\ exit_status' = << main_status(result) >>
    /\ UNCHANGED source
    /\ UNCHANGED << service, procs, outputs, server, dry_run, prune, destState, fs,
                    unreadable, result, cursor, repos, requests, task, todo,
                    syncing, pruning, errors, removed, created, gitStarted,
                    pruneSeen, fsAtPrune, syncLog, runNo, prevRun >>

----------------------------------------------------------------------------
(* list_repositories: one iteration of the request loop *)

\* faulty variant: an error response ends the loop as the end of the data does
list_step_swallowsError(svc, resp, acc) ==
    LET this_repos == IF resp.hasNodes THEN resp.nodes ELSE << >>
        pushed == push_nodes(acc, this_repos, 1)
    IN  IF resp.kind # "json" \/ ~pushed.ok \/ resp.endCursor = None
        THEN [st |-> "ok", msg |-> "", repos |-> Listed(svc, pushed.repos),
              cursor |-> None]
        ELSE [st |-> "more", msg |-> "", repos |-> pushed.repos,
              cursor |-> resp.endCursor]

\* faulty variant: the loop breaks on the absent cursor before it reads the nodes
list_step_dropsLastPage(svc, resp, acc) ==
    LET this_repos == IF resp.hasNodes THEN resp.nodes ELSE << >>
        pushed == push_nodes(acc, this_repos, 1)
    IN  IF resp.kind # "json" \/ ~pushed.ok
        THEN [st |-> "err", msg |-> "error", repos |-> acc, cursor |-> None]
        ELSE IF resp.endCursor = None
        THEN [st |-> "ok", msg |-> "", repos |-> Listed(svc, acc), cursor |-> None]
        ELSE [st |-> "more", msg |-> "", repos |-> pushed.repos,
              cursor |-> resp.endCursor]

\* the body of the loop for the response resp, with the vector acc so far:
\* "err" returns an error, "more" loops with the new cursor, "ok" breaks
list_step(svc, resp, acc) ==
    LET this_repos == IF resp.hasNodes THEN resp.nodes ELSE << >>
        pushed == push_nodes(acc, this_repos, 1)
    IN  IF resp.kind = "transport"
        THEN [st |-> "err", msg |-> "transport", repos |-> acc, cursor |-> None]
        ELSE IF resp.kind \in {"status401", "status500"}
        THEN [st |-> "err", msg |-> StatusError(svc, resp.kind),
              repos |-> acc, cursor |-> None]
        ELSE IF resp.kind = "badjson"
        THEN [st |-> "err", msg |-> "invalid JSON", repos |-> acc, cursor |-> None]
        ELSE IF ~pushed.ok
        THEN [st |-> "err", msg |-> "invalid node", repos |-> acc, cursor |-> None]
        ELSE IF resp.endCursor = None
        THEN [st |-> "ok", msg |-> "", repos |-> Listed(svc, pushed.repos),
              cursor |-> None]
        ELSE [st |-> "more", msg |-> "", repos |-> pushed.repos,
              cursor |-> resp.endCursor]

\* GitLab::list_repositories after its one request: there is no loop
gitlab_step(resp, acc) ==
    LET repo_values == IF resp.hasNodes THEN resp.nodes ELSE << >>
        pushed == push_nodes(acc, repo_values, 1)
    IN  IF resp.kind = "transport"
        THEN [st |-> "err", msg |-> "transport", repos |-> acc, cursor |-> None]
        ELSE IF resp.kind \in {"status401", "status500"}
        THEN [st |-> "err", msg |-> StatusError("gitlab", resp.kind),
              repos |-> acc, cursor |-> None]
        ELSE IF resp.kind = "badjson"
        THEN [st |-> "err", msg |-> "invalid JSON", repos |-> acc, cursor |-> None]
        ELSE IF ~pushed.ok
        THEN [st |-> "err", msg |-> "invalid node", repos |-> acc, cursor |-> None]
        ELSE [st |-> "ok", msg |-> "", repos |-> pushed.repos, cursor |-> None]

\* the body of the loop of Bitbucket::list_repositories: the body of the
\* response is not read, url and repos are not assigned, and nothing breaks
bitbucket_step(resp, current_url, acc) ==
    IF resp.kind = "transport"
    THEN [st |-> "err", msg |-> "transport", repos |-> acc, cursor |-> None]
    ELSE IF resp.kind \in {"status401", "status500"}
    THEN [st |-> "err", msg |-> StatusError("bitbucket", resp.kind),
          repos |-> acc, cursor |-> None]
    ELSE [st |-> "more", msg |-> "", repos |-> acc, cursor |-> current_url]

\* service.list_repositories(): one request of the client svc
client_step(svc, resp, current, acc) ==
    CASE svc = "gitlab" -> gitlab_step(resp, acc)
      [] svc = "bitbucket" -> bitbucket_step(resp, current, acc)
      [] OTHER -> list_step(svc, resp, acc)

ListPage ==
    /\ pc = "list"
    /\ Len(requests) < MaxRequests
    /\ LET begin == list_begin(service, owner, repository, token)
           returns == requests = << >> /\ begin.st # "more"
           r == IF returns THEN begin
                ELSE client_step(service, Response(service, server, cursor),
                                 cursor, repos)
       IN
        /\ requests' = IF returns THEN requests ELSE Append(requests, cursor)
        /\ cursor' = r.cursor
        /\ IF r.st = "err"
           THEN /\ pc' = "done" /\ result' = "Err"
                /\ errors' = errors \cup {<< "list", r.msg >>}
                /\ repos' = << >> /\ task' = << >>
           ELSE /\ pc' = IF r.st = "ok" THEN "sync" ELSE "list"
                /\ repos' = r.repos
                /\ task' = IF r.st = "ok"
                           THEN [i \in DOMAIN r.repos |-> "todo"] ELSE << >>
                /\ UNCHANGED << result, errors >>
    /\ UNCHANGED << source, exit_status, procs, outputs >>
    /\ UNCHANGED << service, server, dry_run, prune, destState, fs, unreadable,
                    todo, syncing, pruning, removed, created, gitStarted,
                    pruneSeen, fsAtPrune, syncLog, runNo, prevRun >>

----------------------------------------------------------------------------
(* run: the parallel sync of the repositories *)

Folder(i) == repo_name_to_folder(repos[i].name)

Finished == {"skipped", "ok", "failed"}

\* run calls sync_repository unless this is a dry run
calls_sync(dry) == ~dry

\* create_dir_all can succeed when no file is in the place of the folder or
\* of a directory above it, and the destination can be searched
create_dir_all_may_succeed(dest, entry, above) ==
    /\ dest # "unsearchable"
    /\ entry.kind # "file"
    /\ \A p \in above : p.kind # "file"

\* create_dir_all returns the error of mkdir unless the path is a directory
\* by then: it cannot fail on a directory that exists and can be looked up
create_dir_all_may_fail(dest, entry) == ~is_dir(dest, entry)

\* the destination once create_dir_all has returned: it makes the missing
\* parents one by one, with the mode the umask leaves, so that a destination
\* it made may be one that cannot be listed or searched, and a call that
\* fails may have made the destination already
create_dir_all_dest(dest, succeeded) ==
    IF dest # "missing" THEN {dest}
    ELSE IF succeeded THEN {"ok", "unreadable"}
    ELSE {"missing", "ok", "unreadable", "unsearchable"}

\* the text of git_clone_cmd before the value of credential.helper
CloneHead ==
    << "\n", " ", " ", " ", " ", " ", " ", " ", " ", "g", "i", "t", " ",
       "c", "l", "o", "n", "e", " ", "\\", "\n", " ", " ", " ", " ", " ",
       " ", " ", " ", " ", " ", " ", " ", "-", "-", "b", "a", "r", "e",
       " ", "\\", "\n", " ", " ", " ", " ", " ", " ", " ", " ", " ", " ",
       " ", " ", "-", "-", "c", "o", "n", "f", "i", "g", " ", "c", "r",
       "e", "d", "e", "n", "t", "i", "a", "l", ".", "h", "e", "l", "p",
       "e", "r", "=" >>

\* the value of credential.helper that git clone --config writes to the mirror
CredentialHelper ==
    << "!", "f", "(", ")", " ", "{", " ", "s", "l", "e", "e", "p", " ",
       "1", ";", " ", "e", "c", "h", "o", " ", "\"", "u", "s", "e", "r",
       "n", "a", "m", "e", "=", "$", "{", "G", "I", "T", "_", "U", "S",
       "E", "R", "}", "\"", ";", " ", "e", "c", "h", "o", " ", "\"", "p",
       "a", "s", "s", "w", "o", "r", "d", "=", "$", "{", "G", "I", "T",
       "_", "P", "A", "S", "S", "W", "O", "R", "D", "}", "\"", ";", " ",
       "}", ";", " ", "f" >>

CloneTail ==
    << " ", "\\", "\n", " ", " ", " ", " " >>

\* faulty variant: the password is written into the URL of the command
git_clone_cmd_passwordInUrl(repo_url) ==
    CloneHead \o << "'" >> \o CredentialHelper \o << "'" >> \o CloneTail
        \o token \o << "@" >> \o repo_url \o << " ", "." >>

git_clone_cmd(repo_url) ==
    CloneHead \o << "'" >> \o CredentialHelper \o << "'" >> \o CloneTail
        \o repo_url \o << " ", "." >>

git_fetch_cmd ==
    << "g", "i", "t", " ", "f", "e", "t", "c", "h", " ", "o", "r", "i",
       "g", "i", "n", " ", "'", "+", "*", ":", "*", "'", " ", "-", "-",
       "p", "r", "u", "n", "e" >>

\* the command line of the process that sync_repository starts
command_line(command, repo_url) ==
    << << "s", "h" >>, << "-", "c" >>,
       IF command = "fetch" THEN git_fetch_cmd ELSE git_clone_cmd(repo_url) >>

\* the environment sync_repository adds to that of the process
command_env(username, password) ==
    [GIT_USER |-> username, GIT_PASSWORD |-> password]

\* the settings the command writes to the configuration of the mirror that
\* hold text of the caller: git clone writes the setting of --config and the
\* URL it cloned as that of remote "origin"; git fetch writes none
persisted_config(command, repo_url) ==
    IF command = "clone"
    THEN << [key |-> "credential.helper", value |-> CredentialHelper],
            [key |-> "remote.origin.url", value |-> repo_url] >>
    ELSE << >>

\* String::from_utf8_lossy: U+FFFD for each byte that is not valid UTF-8
from_utf8_lossy(bytes) ==
    [k \in DOMAIN bytes |-> IF bytes[k] = "xFF" THEN "uFFFD" ELSE bytes[k]]

GitErrorHead ==
    << "G", "i", "t", " ", "c", "o", "m", "m", "a", "n", "d", " ", "d",
       "i", "d", " ", "n", "o", "t", " ", "e", "x", "i", "t", " ", "s",
       "u", "c", "c", "e", "s", "s", "f", "u", "l", "l", "y", ":", " ",
       "\n", "\n" >>

\* faulty variant: the error does not say what the git process wrote
git_error_withoutStderr(stderr) ==
    GitErrorHead \o << "\n" >>

\* the error of sync_repository when the git process exited with a failure
git_error(stderr) ==
    GitErrorHead \o from_utf8_lossy(stderr) \o << "\n" >>

\* the git command sync_repository starts
sync_command(entry) == IF is_repo(entry) THEN "fetch" ELSE "clone"

\* the refs of the mirror once the command has succeeded
refs_after(command, git_url, entry) ==
    IF command = "fetch" THEN git_fetch_refs(entry.origin)
    ELSE git_clone_refs(git_url)

\* remote "origin" of the mirror once the command has succeeded
origin_after(command, git_url, entry) ==
    IF command = "fetch" THEN entry.origin ELSE git_url

\* faulty variant: the closure takes a failed sync up again
closure_end_retries(sync_failed) == IF sync_failed THEN "todo" ELSE "ok"

\* the closure of for_each ends once sync_repository has returned: an error
\* is logged, and nothing more is done for the repository
closure_end(sync_failed) == IF sync_failed THEN "failed" ELSE "ok"

\* the closure of for_each up to the end of create_dir_all
SyncBegin(i) ==
    /\ pc = "sync" /\ task[i] = "todo"
    /\ syncing' = syncing \cup {repos[i].name}
    /\ IF ~calls_sync(dry_run)
       THEN /\ task' = [task EXCEPT ![i] = "skipped"]
            /\ UNCHANGED << fs, destState, created, errors >>
       ELSE LET path == parents(Folder(i)) \cup {Folder(i)}
                missing == {n \in path : fs[n].kind = "none"}
            IN
            \/ /\ create_dir_all_may_succeed(destState, fs[Folder(i)],
                                              {fs[n] : n \in parents(Folder(i))})
               /\ task' = [task EXCEPT ![i] = "ready"]
               /\ fs' = [n \in AllNames |->
                            IF n \in missing THEN EmptyDir ELSE fs[n]]
               /\ destState' \in create_dir_all_dest(destState, TRUE)
               /\ created' = created \cup missing
                     \cup (IF destState = "missing" THEN {<< "/" >>} ELSE {})
               /\ UNCHANGED errors
            \/ /\ create_dir_all_may_fail(destState, fs[Folder(i)])
               /\ task' = [task EXCEPT ![i] = closure_end(TRUE)]
               /\ errors' = errors \cup {<< "sync", Folder(i), "create" >>}
               /\ destState' \in create_dir_all_dest(destState, FALSE)
               /\ \E made \in SUBSET (missing \ {Folder(i)}) :
                     /\ made # {} => searchable(destState')
                     /\ fs' = [n \in AllNames |->
                                  IF n \in made THEN EmptyDir ELSE fs[n]]
                     /\ created' = created \cup made
                           \cup (IF destState' # destState
                                 THEN {<< "/" >>} ELSE {})
    /\ UNCHANGED << source, exit_status, procs, outputs >>
    /\ UNCHANGED << service, server, dry_run, prune, unreadable, pc, result,
                    cursor, repos, requests, todo, pruning, removed, gitStarted,
                    pruneSeen, fsAtPrune, syncLog, runNo, prevRun >>

\* sync_repository: is_repo and the start of the git process
SyncSpawn(i) ==
    /\ pc = "sync" /\ task[i] = "ready"
    /\ \/ /\ task' = [task EXCEPT ![i] = sync_command(fs[Folder(i)])]
          /\ gitStarted' = gitStarted + 1
          /\ procs' = procs \cup
                {[command |-> sync_command(fs[Folder(i)]),
                  repo_url |-> repos[i].git_url,
                  username |-> owner, password |-> token,
                  current_dir |-> Folder(i)]}
          /\ UNCHANGED errors
       \/ /\ task' = [task EXCEPT ![i] = closure_end(TRUE)]
          /\ errors' = errors \cup {<< "sync", Folder(i), "spawn" >>}
          /\ UNCHANGED << gitStarted, procs >>
    /\ UNCHANGED << source, exit_status, outputs >>
    /\ UNCHANGED << service, server, dry_run, prune, destState, fs, unreadable,
                    pc, result, cursor, repos, requests, todo, syncing, pruning,
                    removed, created, pruneSeen, fsAtPrune, syncLog, runNo, prevRun >>

\* sync_repository: the git process ends
SyncExit(i) ==
    /\ pc = "sync" /\ task[i] \in {"clone", "fetch"}
    /\ \/ LET entry == fs[Folder(i)]
              refs == refs_after(task[i], repos[i].git_url, entry)
              empty == \A n \in AllNames :
                          inside(n, Folder(i)) => fs[n].kind = "none" IN
          /\ git_may_succeed(task[i], entry, empty)
          /\ task' = [task EXCEPT ![i] = closure_end(FALSE)]
          /\ fs' = [fs EXCEPT ![Folder(i)] =
                        [kind |-> entry.kind, head |-> TRUE, refs |-> refs,
                         origin |-> origin_after(task[i], repos[i].git_url, entry)]]
          /\ syncLog' = [syncLog EXCEPT ![Folder(i)] =
                            Append(@, [op |-> task[i], refs |-> refs])]
          /\ UNCHANGED << errors, outputs >>
       \/ \E stderr \in stderrs :
          /\ task' = [task EXCEPT ![i] = closure_end(TRUE)]
          /\ outputs' = outputs \cup {[dir |-> Folder(i), stderr |-> stderr]}
          /\ errors' = errors \cup {<< "sync", Folder(i), "git", git_error(stderr) >>}
          /\ UNCHANGED << fs, syncLog >>
    /\ UNCHANGED << source, exit_status, procs >>
    /\ UNCHANGED << service, server, dry_run, prune, destState, unreadable, pc,
                    result, cursor, repos, requests, todo, syncing, pruning,
                    removed, created, gitStarted, pruneSeen, fsAtPrune, runNo, prevRun >>

----------------------------------------------------------------------------
(* run: the prune pass *)

\* faulty variant: for_each returns once every closure has begun
for_each_returned_begun(t) == \A i \in DOMAIN t : t[i] # "todo"

\* for_each has returned once every closure has
for_each_returned(t) == \A i \in DOMAIN t : t[i] \in Finished

\* faulty variant: the prune pass runs whatever the flag
prunes_always(flag) == TRUE

\* run enters the prune pass
prunes(flag) == flag

\* read_dir(dest_path)? succeeds: the destination can be listed
read_dir_ok(dest) == dest \in {"ok", "unsearchable"}

\* the folder is removed unless this is a dry run
removes(dry) == ~dry

SyncDone ==
    /\ pc = "sync" /\ for_each_returned(task)
    /\ IF ~prunes(prune)
       THEN /\ pc' = "done" /\ result' = "Ok"
            /\ UNCHANGED << todo, errors, pruneSeen, fsAtPrune >>
       ELSE /\ pruneSeen' = task /\ fsAtPrune' = fs
            /\ IF read_dir_ok(destState)
               THEN /\ pc' = "prune"
                    /\ todo' = {n \in AllNames :
                                   direct_child(n) /\ fs[n].kind # "none"}
                    /\ UNCHANGED << result, errors >>
               ELSE /\ pc' = "done" /\ result' = "Err"
                    /\ errors' = errors \cup {<< "run", "read_dir" >>}
                    /\ UNCHANGED todo
    /\ UNCHANGED << source, exit_status, procs, outputs >>
    /\ UNCHANGED << service, server, dry_run, prune, destState, fs, unreadable,
                    cursor, repos, requests, task, syncing, pruning, removed,
                    created, gitStarted, syncLog, runNo, prevRun >>

\* ReadDir::next yields the error of an entry it cannot read, and then None
read_dir_ends_at(e, unread) == e \in unread

\* one iteration of the loop over the entries of the destination; at an entry
\* that cannot be read it is the last one, and run goes on to
\* "Backup completed!" with the entries of todo not looked at.  remove_dir_all
\* removes the folder with all that is in it; when it fails, any part of the
\* folder and of each folder in it can be left
PruneEntry(e) ==
    /\ pc = "prune" /\ e \in todo
    /\ todo' = todo \ {e}
    /\ IF read_dir_ends_at(e, unreadable)
       THEN /\ pc' = "done" /\ result' = "Ok"
            /\ UNCHANGED << fs, pruning, removed, errors >>
       ELSE /\ UNCHANGED << pc, result >>
            /\ IF ~prune_candidate(e, fs[e], unreadable,
                                   keep_these_folders(repos), destState)
               THEN UNCHANGED << fs, pruning, removed, errors >>
               ELSE /\ pruning' = pruning \cup {e}
                    /\ IF ~removes(dry_run)
                       THEN UNCHANGED << fs, removed, errors >>
                       ELSE LET contents == {n \in AllNames :
                                               inside(n, e) /\ fs[n].kind # "none"}
                            IN
                            \/ /\ fs' = [n \in AllNames |->
                                            IF n \in contents \cup {e}
                                            THEN Absent ELSE fs[n]]
                               /\ removed' = removed \cup contents \cup {e}
                               /\ UNCHANGED errors
                            \/ \E left \in remove_dir_all_leaves(fs[e]) :
                               \E after \in [contents ->
                                                {Absent} \cup UNION
                                                {remove_dir_all_leaves(fs[n]) :
                                                    n \in contents}] :
                               /\ \A n \in contents :
                                     /\ after[n] \in {Absent}
                                            \cup remove_dir_all_leaves(fs[n])
                                     /\ fs[e].kind = "link" => after[n] = fs[n]
                               /\ fs' = [n \in AllNames |->
                                            IF n = e THEN left
                                            ELSE IF n \in contents THEN after[n]
                                            ELSE fs[n]]
                               /\ removed' = removed \cup
                                     {n \in contents : after[n] = Absent}
                               /\ errors' = errors \cup {<< "prune", e >>}
    /\ UNCHANGED << source, exit_status, procs, outputs >>
    /\ UNCHANGED << service, server, dry_run, prune, destState, unreadable,
                    cursor, repos, requests, task, syncing, created,
                    gitStarted, pruneSeen, fsAtPrune, syncLog, runNo, prevRun >>

\* "Backup completed!"
PruneDone ==
    /\ pc = "prune" /\ todo = {}
    /\ pc' = "done" /\ result' = "Ok"
    /\ UNCHANGED << source, exit_status, procs, outputs >>
    /\ UNCHANGED << service, server, dry_run, prune, destState, fs, unreadable,
                    cursor, repos, requests, task, todo, syncing, pruning,
                    errors, removed, created, gitStarted, pruneSeen, fsAtPrune, syncLog,
                    runNo, prevRun >>

\* the user invokes the tool once more, with the same source and destination
Rerun ==
    /\ pc = "exited" /\ runNo < MaxRuns
    /\ runNo' = runNo + 1
    /\ prevRun' = [dry |-> dry_run, prune |-> prune, syncing |-> syncing,
                   pruning |-> pruning, result |-> result]
    /\ dry_run' \in BOOLEAN
    /\ pc' = "start" /\ result' = "running"
    /\ cursor' = None /\ repos' = << >> /\ requests' = << >>
    /\ task' = << >> /\ todo' = {}
    /\ syncing' = {} /\ pruning' = {} /\ errors' = {}
    /\ removed' = {} /\ created' = {} /\ gitStarted' = 0
    /\ pruneSeen' = << >> /\ fsAtPrune' = fs
    /\ procs' = {} /\ outputs' = {} /\ exit_status' = << >>
    /\ UNCHANGED source
    /\ UNCHANGED << service, server, prune, destState, fs, unreadable, syncLog >>

----------------------------------------------------------------------------

Next ==
    \/ RunConfig
    \/ ListPage
    \/ \E i \in DOMAIN task : SyncBegin(i)
    \/ \E i \in DOMAIN task : SyncSpawn(i)
    \/ \E i \in DOMAIN task : SyncExit(i)
    \/ SyncDone
    \/ \E e \in AllNames : PruneEntry(e)
    \/ PruneDone
    \/ MainExit
    \/ Rerun

Spec == Init /\ [][Next]_vars

\* one invocation of the tool, from main to its exit
NextRun ==
    \/ RunConfig
    \/ ListPage
    \/ \E i \in DOMAIN task : SyncBegin(i)
    \/ \E i \in DOMAIN task : SyncSpawn(i)
    \/ \E i \in DOMAIN task : SyncExit(i)
    \/ SyncDone
    \/ \E e \in AllNames : PruneEntry(e)
    \/ PruneDone
    \/ MainExit

SpecRun == Init /\ [][NextRun]_vars

\* list_repositories alone, over every provider of the bounds
NextEnum == ListPage

SpecEnum == InitEnum /\ [][NextEnum]_vars

\* one invocation for every way to write a source, with one small provider
SpecCli == InitCli /\ [][NextRun]_vars

----------------------------------------------------------------------------
(* Properties of the prune pass *)

\* run has returned
Returned == pc \in {"done", "exited"}

\* the folder names of the repositories that list_repositories returned
ListedFolders == {repos[i].name \o << ".", "g", "i", "t" >> : i \in DOMAIN repos}

HasGitSuffix(n) ==
    /\ Len(n) >= 4
    /\ n[Len(n) - 3] = "." /\ n[Len(n) - 2] = "g"
    /\ n[Len(n) - 1] = "i" /\ n[Len(n)] = "t"

ValidUtf8(n) == \A k \in DOMAIN n : n[k] # "xFF"

\* C1 as stated: with prune enabled, no step of a run removes a directory
\* named "<name>.git" for a repository of the list of that run, whoever
\* created the directory and whether or not the sync of that repository
\* succeeded.
C1_ListedFolderNeverRemoved ==
    [][\A n \in ListedFolders : fs[n].kind = "dir" => fs'[n].kind = "dir"]_vars

PrunePassComplete ==
    /\ Returned /\ result = "Ok" /\ prune /\ ~dry_run
    /\ \A n \in AllNames : << "prune", n >> \notin errors

\* C2 as stated: after a prune pass without dry-run in which every removal
\* succeeded, the children removed are exactly the directories whose name
\* ends in ".git" and is the folder of no listed repository; every other
\* child is as it was.
C2_Original ==
    PrunePassComplete =>
        \A n \in AllNames :
            IF /\ direct_child(n)
               /\ fsAtPrune[n].kind = "dir"
               /\ HasGitSuffix(n)
               /\ n \notin ListedFolders
            THEN fs[n].kind = "none"
            ELSE fs[n] = fsAtPrune[n]

\* C3 as stated: a file or directory under the destination disappears only
\* in a step of the prune pass of a run with the prune flag set, and only
\* when it is the folder of no listed repository; without the flag nothing
\* disappears.
C3_RemovedOnlyByRequestedPrune ==
    [][\A n \in AllNames :
          (fs[n].kind # "none" /\ fs'[n].kind = "none") =>
              (prune /\ pc = "prune" /\ n \notin ListedFolders)]_vars

----------------------------------------------------------------------------
(* Properties of run *)

\* C4 as stated: a dry run creates no directory, starts no git process and
\* removes no folder; and the run without dry-run that follows it, on the
\* filesystem the dry run left as it was and with the same list, logs the
\* same repositories to sync and the same folders to prune and returns the
\* same result.
C4_DryRunPredictsRealRun ==
    /\ dry_run => (created = {} /\ removed = {} /\ gitStarted = 0)
    /\ (Returned /\ ~dry_run /\ prevRun.result # "none" /\ prevRun.dry) =>
          /\ prevRun.syncing = syncing
          /\ prevRun.pruning = pruning
          /\ prevRun.result = result

\* C5 as stated: sync_repository starts a clone when the folder has no HEAD
\* file and a fetch otherwise; of two consecutive successful syncs of one
\* repository the second is a fetch, and the refs of the mirror after the
\* second are the refs after the first.
C5_SyncIdempotent ==
    /\ \A i \in DOMAIN task :
          /\ task[i] = "clone" => ~fs[Folder(i)].head
          /\ task[i] = "fetch" => fs[Folder(i)].head
    /\ \A n \in AllNames : \A k \in DOMAIN syncLog[n] :
          k > 1 => /\ syncLog[n][k].op = "fetch"
                   /\ syncLog[n][k].refs = syncLog[n][k - 1].refs

\* C6 as stated: when the sync of one repository has failed, every task of
\* the run has still run to its end, the prune pass was still entered when
\* enabled, and run returns Ok.
C6_SyncFailureIsolated ==
    (Returned /\ \E i \in DOMAIN task : task[i] = "failed") =>
        /\ \A i \in DOMAIN task : task[i] \in {"ok", "failed"}
        /\ prune => pruneSeen = task
        /\ result = "Ok"

\* a response that makes list_repositories return an error
BadResponse(resp) ==
    \/ resp.kind # "json"
    \/ /\ resp.hasNodes
       /\ \E k \in DOMAIN resp.nodes :
             resp.nodes[k].name = None \/ resp.nodes[k].url = None

WorkDone ==
    \/ task # << >> \/ syncing # {} \/ pruning # {}
    \/ created # {} \/ removed # {} \/ gitStarted # 0

\* C7: no sync task exists and nothing is created or pruned while the
\* enumeration is still running; and once a request of the enumeration got
\* a response that is an error, run has returned an error and no sync task
\* was started, no folder created and no folder pruned in that run.
C7_EnumerationFirstAndFatal ==
    /\ pc \in {"start", "list"} => ~WorkDone
    /\ (\E k \in DOMAIN requests :
            BadResponse(Response(service, server, requests[k]))) =>
          (Returned /\ result = "Err" /\ ~WorkDone)

\* the second page of the provider failed after the first was read
C7_Witness ==
    /\ Len(requests) = 2
    /\ ~BadResponse(Response(service, server, requests[1]))
    /\ BadResponse(Response(service, server, requests[2]))
    /\ Returned /\ result = "Err"

----------------------------------------------------------------------------
(* Properties of list_repositories *)

\* C8 as stated: the folder names of the entries of a returned list are
\* pairwise distinct.
C8_FolderNamesDistinct ==
    pc = "sync" =>
        \A i, j \in DOMAIN repos :
            i # j => repos[i].name \o << ".", "g", "i", "t" >>
                        # repos[j].name \o << ".", "g", "i", "t" >>

PageCount == Cardinality(DOMAIN server)

\* the client lists the repositories of an account, and has a token for it
ListsAccount == repository = None /\ token # None

\* the provider serves PageCount well-formed pages, each naming the next
WellFormedProvider ==
    \A k \in 0..(PageCount - 1) :
        LET resp == server[CursorAt(k)] IN
        /\ resp.kind = "json" /\ resp.hasNodes
        /\ \A m \in DOMAIN resp.nodes :
              resp.nodes[m].name # None /\ resp.nodes[m].url # None
        /\ resp.endCursor = IF k + 1 < PageCount THEN CursorAt(k + 1) ELSE None

\* the items of all pages in page order
AllItems ==
    LET RECURSIVE From(_)
        From(k) == IF k >= PageCount THEN << >>
                   ELSE server[CursorAt(k)].nodes \o From(k + 1)
    IN  From(0)

\* C9: the GitHub client, served N well-formed pages, never returns an
\* error, requests each page once in order, and returns exactly the items of
\* all N pages in page order, none twice and none of the last page dropped.
C9_PagesConcatenated ==
    (service = "github" /\ ListsAccount /\ WellFormedProvider) =>
        /\ result # "Err"
        /\ \A k \in DOMAIN requests : requests[k] = CursorAt(k - 1)
        /\ pc = "sync" =>
              /\ Len(requests) = PageCount
              /\ Len(repos) = Len(AllItems)
              /\ \A k \in DOMAIN repos :
                    /\ repos[k].name = AllItems[k].name
                    /\ repos[k].git_url = AllItems[k].url
              /\ \A i, j \in DOMAIN repos : repos[i] = repos[j] => i = j

\* two pages with items were served and the list was returned
C9_Witness ==
    /\ service = "github" /\ ListsAccount /\ WellFormedProvider /\ pc = "sync"
    /\ PageCount = 2
    /\ server[None].nodes # << >> /\ server[CursorAt(1)].nodes # << >>
    /\ Len(repos) >= 2

\* C10 as stated: list_repositories never issues a request with a cursor it
\* has already used (a provider that returns a cursor again gets an error).
C10_NoCursorRequestedTwice ==
    \A i, j \in DOMAIN requests : requests[i] = requests[j] => i = j

\* the response the client read for its k-th request
ResponseTo(k) == Response(service, server, requests[k])

\* C11 as stated: the Bitbucket client, listing an account, stops as soon as
\* a successful response names no next page: that request is its last, the
\* enumeration is over and has not failed.
C11_LinkPagesTerminate ==
    (service = "bitbucket" /\ ListsAccount) =>
        \A k \in DOMAIN requests :
            (ResponseTo(k).kind = "json" /\ ResponseTo(k).endCursor = None) =>
                /\ k = Len(requests)
                /\ pc # "list"
                /\ result # "Err"

\* C12: when the source names one repository, list_repositories of the
\* GitHub, GitLab and Bitbucket clients returns exactly one descriptor, named
\* as that repository, issues no request, and does so with or without a token.
C12_SingleRepositoryShortCircuit ==
    (service \in Providers /\ repository # None) =>
        /\ requests = << >>
        /\ result # "Err"
        /\ pc # "list" =>
              /\ Len(repos) = 1
              /\ repos[1].name = repository
              /\ repos[1].git_url = single_git_url(service, owner, repository)

\* the GitLab client returned the one repository of a source without a token
C12_Witness ==
    /\ service = "gitlab" /\ repository = GitBackup /\ token = None
    /\ pc = "sync" /\ requests = << >>
    /\ Len(repos) = 1 /\ repos[1].name = GitBackup

\* the items of the responses the client has read, in the order it read them
RECURSIVE ItemsRead(_)
ItemsRead(k) ==
    IF k = 0 THEN << >> ELSE ItemsRead(k - 1) \o ResponseTo(k).nodes

\* how many of the first i items have the name of the i-th
Occurrence(items, i) ==
    Cardinality({j \in 1..i : items[j].name = items[i].name})

\* C13: the gist client gives the first item of a name that name and the k-th
\* item of the same name (k >= 2) the name followed by a space and k in
\* decimal; the name of an item depends on the items before it only, so the
\* names are the same on every run and an item created later changes none.
C13_GistNamesStable ==
    (service = "gists" /\ pc = "sync") =>
        LET items == ItemsRead(Len(requests)) IN
        /\ Len(repos) = Len(items)
        /\ \A i \in DOMAIN repos :
              /\ repos[i].git_url = items[i].url
              /\ repos[i].name =
                    IF Occurrence(items, i) = 1 THEN items[i].name
                    ELSE items[i].name \o << " " >>
                            \o usize_to_string(Occurrence(items, i))
        /\ \A n \in 0..Len(items) :
              LET before == dedupe(push_nodes(<< >>, SubSeq(items, 1, n), 1).repos)
              IN  \A i \in 1..n : before[i].name = repos[i].name

\* three gists whose first file has the same name were listed
C13_Witness ==
    /\ service = "gists" /\ pc = "sync" /\ Len(repos) = 3
    /\ repos[1].name = a
    /\ repos[2].name = << "a", " ", "2" >>
    /\ repos[3].name = << "a", " ", "3" >>

ConfigErrors ==
    {<< "run", m >> : m \in {"git missing", "git too old", "token required",
                             "not recognised"}}

\* C14 as stated: the process exits with a status that is not zero when the
\* source is not recognised, no token is given or git is missing or older
\* than 2.0.0, and with zero when the run succeeded.
C14_ExitStatusReportsFailure ==
    pc = "exited" =>
        /\ errors \cap ConfigErrors # {} => exit_status # << 0 >>
        /\ (result = "Ok" /\ errors = {}) => exit_status = << 0 >>

\* what each registered client makes of the source
Parsed == [k \in DOMAIN Registered |-> new(Registered[k], url)]

\* C15: with git and a token at hand, the client that run goes on with is
\* the first registered one whose grammar matches the source, and it stays
\* the client of the run; when none matches, run returns the error "not
\* recognised" and nothing else, having sent no request, started no sync and
\* pruned nothing.
C15_FirstMatchOrNotRecognised ==
    /\ [](<< "run", "not recognised" >> \in errors =>
            /\ Returned /\ result = "Err"
            /\ errors = {<< "run", "not recognised" >>}
            /\ requests = << >> /\ repos = << >> /\ procs = {}
            /\ ~WorkDone)
    /\ [][/\ pc # "start" => UNCHANGED << url, service, owner, repository >>
          /\ (pc = "start" /\ git_version = GoodGit /\ token # None) =>
                LET parsed == Parsed
                    matching == {k \in DOMAIN parsed : parsed[k] # NoService}
                IN  IF matching = {}
                    THEN /\ pc' = "done"
                         /\ << "run", "not recognised" >> \in errors'
                    ELSE /\ pc' = "list" /\ errors' = errors
                         /\ \E k \in matching :
                               /\ \A j \in matching : k <= j
                               /\ service' = Registered[k]
                               /\ owner' = parsed[k].owner
                               /\ repository' = parsed[k].repository]_vars

\* a gist address is the source: no registered client takes it
C15_Witness ==
    /\ url = << "g", "i", "s", "t", ".", "g", "i", "t", "h", "u", "b", ".", "c", "o", "m", "/", "j", "s", "d", "w" >>
    /\ pc = "exited" /\ result = "Err"
    /\ errors = {<< "run", "not recognised" >>}

\* C16: every way to write a location (with or without scheme, www., the
\* suffix of the host, the suffix .git, as HTTP(S), SSH with a colon or
\* user@host, for an account or one repository) makes run go on with the
\* client of the location's provider, with its owner and its repository,
\* and that stays the client of the run.
C16_VariantsResolveAlike ==
    [][/\ pc # "start" => UNCHANGED << url, service, owner, repository >>
       /\ (pc = "start" /\ git_version = GoodGit /\ token # None) =>
             \A loc \in Locations :
                 url \in Variants(loc) =>
                     /\ pc' = "list"
                     /\ service' = loc.service
                     /\ owner' = loc.owner
                     /\ repository' = loc.repository]_vars

\* the SSH form with .git of jsdw/git.backup on GitHub was resolved
C16_Witness ==
    /\ url = << "g", "i", "t", "@", "g", "i", "t", "h", "u", "b", ".", "c", "o", "m", ":", "j", "s", "d", "w", "/", "g", "i", "t", ".", "b", "a", "c", "k", "u", "p", ".", "g", "i", "t" >>
    /\ pc = "list"
    /\ service = "github" /\ owner = Jsdw /\ repository = GitBackup

\* the positions of s at which sub occurs
Occurrences(sub, s) ==
    {i \in 1..(Len(s) - Len(sub) + 1) : SubSeq(s, i, i + Len(sub) - 1) = sub}

Occurs(sub, s) == Occurrences(sub, s) # {}

\* the arguments and the added environment of the process p
Args(p) == command_line(p.command, p.repo_url)
Env(p) == command_env(p.username, p.password)
Config(p) == persisted_config(p.command, p.repo_url)

\* C17 as stated: neither the username nor the secret occurs in an argument
\* of a process that sync_repository starts nor in the configuration it
\* persists; the process has them as GIT_USER and GIT_PASSWORD.
C17_Original ==
    [][\A p \in procs' \ procs :
        /\ \A k \in DOMAIN Args(p) :
              ~Occurs(owner, Args(p)[k]) /\ ~Occurs(token, Args(p)[k])
        /\ \A k \in DOMAIN Config(p) :
              ~Occurs(owner, Config(p)[k].value) /\ ~Occurs(token, Config(p)[k].value)
        /\ Env(p) = [GIT_USER |-> owner, GIT_PASSWORD |-> token]]_vars

\* C17 amended: the secret occurs in no argument of a process that
\* sync_repository starts and in no setting it persists; the username occurs
\* in an argument only inside the URL of the repository to clone, and in the
\* persisted configuration only in remote.origin.url, which is that URL; the
\* process, clone or fetch, has them as GIT_USER and GIT_PASSWORD.
C17_SecretOnlyInEnvironment ==
    [][\A p \in procs' \ procs :
        /\ \A k \in DOMAIN Args(p) : ~Occurs(token, Args(p)[k])
        /\ \A k \in DOMAIN Args(p) : \A i \in Occurrences(owner, Args(p)[k]) :
              /\ p.command = "clone" /\ k = 3
              /\ i > Len(Args(p)[k]) - 2 - Len(p.repo_url)
              /\ i + Len(owner) - 1 <= Len(Args(p)[k]) - 2
        /\ \A k \in DOMAIN Config(p) :
              /\ ~Occurs(token, Config(p)[k].value)
              /\ Occurs(owner, Config(p)[k].value) =>
                    /\ Config(p)[k].key = "remote.origin.url"
                    /\ Config(p)[k].value = p.repo_url
        /\ Env(p) = [GIT_USER |-> owner, GIT_PASSWORD |-> token]]_vars

\* the repository of a single-repository source was cloned: its URL holds
\* the owner, it is in the command line and in the configuration persisted,
\* and the process has the token in its environment only
C17_Witness ==
    \E q \in procs :
        /\ q.command = "clone" /\ Occurs(owner, q.repo_url)
        /\ Occurs(q.repo_url, Args(q)[3])
        /\ Config(q)[2].value = q.repo_url
        /\ Env(q).GIT_PASSWORD = Tok

\* C18 as stated: when a response is valid JSON without the list of nodes
\* (GitHub) or is not an array (GitLab), list_repositories returns an error.
C18_MissingFieldIsError ==
    (service \in {"github", "gitlab"} /\ ListsAccount) =>
        ((\E k \in DOMAIN requests :
              ResponseTo(k).kind = "json" /\ ~ResponseTo(k).hasNodes)
            => (pc = "done" /\ result = "Err"))

\* C19 as stated: the client of every provider answers the status 401 with
\* the error "not authorized", which no other status gets.
C19_UnauthorizedIsDistinct ==
    /\ (\E k \in DOMAIN requests : ResponseTo(k).kind = "status401")
          => errors = {<< "list", "not authorized" >>}
    /\ (\E k \in DOMAIN requests : ResponseTo(k).kind = "status500")
          => << "list", "not authorized" >> \notin errors

\* the nodes of the response that have a clone URL
RECURSIVE WithUrl(_)
WithUrl(nodes) ==
    IF nodes = << >> THEN << >>
    ELSE IF Head(nodes).url = None THEN WithUrl(Tail(nodes))
    ELSE << Head(nodes) >> \o WithUrl(Tail(nodes))

\* C20 as stated: a provider of one well-formed page, some of whose entries
\* have no HTTPS clone URL, gets no error: the entries with a URL are listed.
C20_EntryWithoutUrlSkipped ==
    (/\ service \in {"github", "gitlab"} /\ ListsAccount
     /\ PageCount = 1
     /\ server[None].kind = "json" /\ server[None].hasNodes
     /\ server[None].endCursor = None
     /\ \A m \in DOMAIN server[None].nodes : server[None].nodes[m].name # None)
    =>  /\ result # "Err"
        /\ pc = "sync" =>
              /\ Len(repos) = Len(WithUrl(server[None].nodes))
              /\ \A i \in DOMAIN repos :
                    /\ repos[i].name = WithUrl(server[None].nodes)[i].name
                    /\ repos[i].git_url = WithUrl(server[None].nodes)[i].url

----------------------------------------------------------------------------
(* Properties of the sync and prune phases *)

\* list_repositories returned a list: every error of the run, if any, is
\* one of the sync phase or of the prune phase
EnumerationReturned ==
    \A e \in errors :
        /\ e[1] # "list"
        /\ e[1] = "run" => e[2] = "read_dir"

\* the entries the prune pass decides to remove
Stale ==
    {n \in AllNames :
        /\ direct_child(n)
        /\ prune_candidate(n, fsAtPrune[n], unreadable,
                           keep_these_folders(repos), destState)}

\* C21 as stated: once list_repositories has returned a list, run returns
\* Ok whatever fails in the sync phase or in the prune phase; with prune
\* enabled, every entry to prune is reported, and removed unless its removal
\* failed or this is a dry run.
C21_SyncAndPruneErrorsNotFatal ==
    (Returned /\ EnumerationReturned) =>
        /\ result = "Ok"
        /\ prune =>
              \A n \in Stale :
                  /\ n \in pruning
                  /\ dry_run \/ n \in removed \/ << "prune", n >> \in errors

\* how far the closure of one repository has come
Stage(t) ==
    CASE t = "todo" -> 0
      [] t = "ready" -> 1
      [] t \in {"clone", "fetch"} -> 2
      [] OTHER -> 3

\* the tasks that started their git process in this step
Spawned == {i \in DOMAIN task : Stage(task[i]) < 2 /\ task'[i] \in {"clone", "fetch"}}

\* C22: in a run without dry-run there is one task per listed repository;
\* a task never comes back to an earlier stage, so sync_repository is entered
\* once for it and a failed sync is not taken up again; a git process is
\* started only by a task that has not started one; and when run returns
\* after the sync phase, every task has ended with ok or failed.
C22_OneSyncPerRepository ==
    /\ [](~dry_run =>
            /\ pc \in {"sync", "prune"} => DOMAIN task = DOMAIN repos
            /\ gitStarted <= Cardinality({i \in DOMAIN task : Stage(task[i]) >= 2})
            /\ (Returned /\ EnumerationReturned) =>
                  /\ DOMAIN task = DOMAIN repos
                  /\ \A i \in DOMAIN task : task[i] \in {"ok", "failed"})
    /\ [][(~dry_run /\ pc' # "start" /\ task # << >>) =>
            /\ DOMAIN task' = DOMAIN task
            /\ \A i \in DOMAIN task :
                  /\ Stage(task'[i]) >= Stage(task[i])
                  /\ Stage(task[i]) >= 2 => task'[i] \notin {"clone", "fetch"} \/ task'[i] = task[i]
                  /\ Stage(task[i]) = 3 => task'[i] = task[i]
            /\ gitStarted' = gitStarted + Cardinality(Spawned)
            /\ Cardinality(Spawned) <= 1]_vars

\* two repositories were synced: the git process of the first failed and
\* that of the second succeeded, and run has returned
C22_Witness ==
    /\ ~dry_run /\ Returned /\ Len(repos) = 2
    /\ task = << "failed", "ok" >>
    /\ gitStarted = 2
    /\ << "sync", Folder(1), "git", git_error(Fatal) >> \in errors

\* the error text m carries the standard error the process wrote: after the
\* head of the message every valid byte as it was written, U+FFFD for a byte
\* that is not valid UTF-8, and nothing else but the closing line feed
Carries(m, stderr) ==
    /\ Len(m) = Len(GitErrorHead) + Len(stderr) + 1
    /\ SubSeq(m, 1, Len(GitErrorHead)) = GitErrorHead
    /\ \A k \in DOMAIN stderr :
          m[Len(GitErrorHead) + k] = IF stderr[k] = "xFF" THEN "uFFFD" ELSE stderr[k]
    /\ ValidUtf8(stderr) => m = GitErrorHead \o stderr \o << "\n" >>

\* C23: sync_repository has made the destination folder, and the destination
\* and every directory above the folder with it, before it starts its git
\* process; when the creation fails, the error of that repository is
\* reported, the folder is as it was and no git process is started; and
\* when the git process exits with a failure, the error reported for the
\* repository carries what the process wrote to its standard error.
C23_CreateThenGitOrError ==
    [][\A i \in DOMAIN task :
          /\ (task[i] = "todo" /\ task'[i] = "ready") =>
                /\ \A n \in parents(Folder(i)) \cup {Folder(i)} :
                      fs'[n].kind \in {"dir", "link"}
                /\ destState' # "missing"
                /\ procs' = procs /\ gitStarted' = gitStarted
          /\ (i \in DOMAIN task' /\ task'[i] \in {"clone", "fetch"}) =>
                /\ task[i] \in {"ready", task'[i]}
                /\ \A n \in parents(Folder(i)) \cup {Folder(i)} :
                      fs[n].kind \in {"dir", "link"}
                /\ destState # "missing"
          /\ (task[i] = "todo" /\ task'[i] = "failed") =>
                /\ << "sync", Folder(i), "create" >> \in errors'
                /\ procs' = procs /\ gitStarted' = gitStarted
                /\ outputs' = outputs /\ fs'[Folder(i)] = fs[Folder(i)]
          /\ (task[i] \in {"clone", "fetch"} /\ task'[i] = "failed") =>
                /\ outputs' # outputs \/ \E o \in outputs : o.dir = Folder(i)
                /\ \A o \in outputs' \ outputs :
                      /\ o.dir = Folder(i)
                      /\ \E e \in errors' :
                            /\ Len(e) = 4 /\ e[2] = Folder(i)
                            /\ Carries(e[4], o.stderr)]_vars

\* the destination did not exist: the run made it and the folder of the
\* repository, and the git process then failed, writing a byte that is not
\* valid UTF-8
C23_Witness ==
    /\ ~dry_run /\ Returned /\ task = << "failed" >>
    /\ << "/" >> \in created /\ Folder(1) \in created
    /\ \E o \in outputs : o.dir = Folder(1) /\ ~ValidUtf8(o.stderr)

----------------------------------------------------------------------------
(* Properties of the gist client *)

\* C24 as stated: the gist client, served N > 1 well-formed pages, requests
\* each page in turn with the cursor of the response before it, and returns
\* the items of all N pages in page order.
C24_GistPagesEnumerated ==
    (service = "gists" /\ ListsAccount /\ WellFormedProvider /\ PageCount > 1) =>
        /\ result # "Err"
        /\ \A k \in DOMAIN requests : requests[k] = CursorAt(k - 1)
        /\ pc = "sync" =>
              /\ Len(requests) = PageCount
              /\ Len(repos) = Len(AllItems)
              /\ \A k \in DOMAIN repos : repos[k].git_url = AllItems[k].url

----------------------------------------------------------------------------
(* Properties of the order of the phases *)

\* a git process of the task is running, or the task has yet to start one
Unfinished(t) == t \notin Finished

\* C25: when run reads the destination directory for the prune pass, every
\* sync task of the run has ended, with or without an error; so during the
\* prune pass, and in every step that removes a folder, no task is waiting
\* and no git process of the run is running.
C25_PruneAfterSync ==
    /\ [](/\ \A i \in DOMAIN pruneSeen : ~Unfinished(pruneSeen[i])
          /\ pc = "prune" => pruneSeen = task
          /\ (pc = "prune" \/ pruning # {} \/ removed # {}) =>
                \A i \in DOMAIN task : ~Unfinished(task[i]))
    /\ [][(\E n \in AllNames : fs[n].kind # "none" /\ fs'[n].kind = "none") =>
             /\ pc = "prune"
             /\ \A i \in DOMAIN task : ~Unfinished(task[i])
             /\ task' = task /\ procs' = procs /\ gitStarted' = gitStarted]_vars

\* the prune pass removes a folder after two syncs, one of which failed
C25_Witness ==
    /\ pc = "prune" /\ ~dry_run /\ removed # {}
    /\ Len(task) = 2 /\ gitStarted = 2
    /\ \E i, j \in DOMAIN task : task[i] = "ok" /\ task[j] = "failed"

----------------------------------------------------------------------------
(* Properties of a run for one repository *)

\* the source names one repository, the prune pass is enabled, and
\* list_repositories has returned
SingleWithPrune ==
    /\ repository # None /\ prune
    /\ pc \in {"sync", "prune"} \/ (Returned /\ result = "Ok")

\* C26 as stated: when the source names one repository and prune is
\* enabled, the keep-set is exactly the folder of that repository, and after
\* a prune pass without dry-run in which every removal succeeded, every other
\* directory of the destination whose name ends in ".git" is removed.
C26_Original ==
    SingleWithPrune =>
        /\ keep_these_folders(repos) = {repo_name_to_folder(repository)}
        /\ PrunePassComplete =>
              \A n \in AllNames \ {repo_name_to_folder(repository)} :
                  (/\ direct_child(n)
                   /\ fsAtPrune[n].kind = "dir" /\ HasGitSuffix(n)) =>
                      (fs[n].kind = "none" /\ n \in removed)

====
